---- MODULE Spec2Model ----
(***************************************************************************)
(* A model of atom-editorconfig's index.js: the per-buffer `editorconfig`  *)
(* object, the normalisation of a resolved config into its settings, the   *)
(* application of the settings to the editor, the pre-save hook, and the   *)
(* events that drive them (editors opening, saves, promise completions).   *)
(*                                                                         *)
(* JavaScript strings are sequences of one-character strings, so that the  *)
(* conversions of the code (parseInt, replace, toLowerCase, the regular    *)
(* expressions) are computed and not assumed.                              *)
(***************************************************************************)
EXTENDS Integers, Sequences, FiniteSets, TLC

\* ------------------------------------------------------------- bounds

\* Resolver requests that may be in flight together.
MaxPending == 2
\* did-save handlers one buffer may carry.
MaxSubs == 2
\* Rows of a buffer in the save-hook specification.
MaxRows == 4

\* -------------------------------------------------- JavaScript values

Undefined == [t |-> "undefined", b |-> FALSE, s |-> <<>>, n |-> 0]
NaN == [t |-> "NaN", b |-> FALSE, s |-> <<>>, n |-> 0]
\* A function or object found on Object.prototype (constructor, toString, ...).
ProtoObject == [t |-> "object", b |-> FALSE, s |-> <<>>, n |-> 0]
Bool(x) == [t |-> "boolean", b |-> x, s |-> <<>>, n |-> 0]
Str(x) == [t |-> "string", b |-> FALSE, s |-> x, n |-> 0]
Num(x) == [t |-> "number", b |-> FALSE, s |-> <<>>, n |-> x]

\* The sentinel 'unset' of the settings (index.js writes it as a string).
Unset == Str(<<"u", "n", "s", "e", "t">>)

\* ToBoolean, as `||` applies it.
Truthy(v) ==
  CASE v.t = "undefined" -> FALSE
    [] v.t = "NaN" -> FALSE
    [] v.t = "boolean" -> v.b
    [] v.t = "string" -> v.s # <<>>
    [] v.t = "number" -> v.n # 0
    [] OTHER -> TRUE

\* a || b
Or(a, b) == IF Truthy(a) THEN a ELSE b

Digits == <<"0", "1", "2", "3", "4", "5", "6", "7", "8", "9">>
IsDigit(c) == \E i \in 1..10 : Digits[i] = c
DigitVal(c) == (CHOOSE i \in 1..10 : Digits[i] = c) - 1
IsSpaceChar(c) == c \in {" ", "\t", "\n", "\r"}

\* The value of the longest prefix of digits of s, read after acc.
RECURSIVE DigitsValue(_, _)
DigitsValue(s, acc) ==
  IF s = <<>> \/ ~IsDigit(Head(s)) THEN acc
  ELSE DigitsValue(Tail(s), acc * 10 + DigitVal(Head(s)))

RECURSIVE SkipSpaces(_)
SkipSpaces(s) ==
  IF s # <<>> /\ IsSpaceChar(Head(s)) THEN SkipSpaces(Tail(s)) ELSE s

\* parseInt(string, 10): leading white space, a sign, then digits; NaN without digits.
ParseIntStr(s0) ==
  LET s == SkipSpaces(s0)
      neg == s # <<>> /\ Head(s) = "-"
      body == IF s # <<>> /\ Head(s) \in {"-", "+"} THEN Tail(s) ELSE s
  IN IF body = <<>> \/ ~IsDigit(Head(body)) THEN NaN
     ELSE Num((IF neg THEN -1 ELSE 1) * DigitsValue(body, 0))

\* parseInt(v, 10) of any value: v is converted to a string first, so a boolean
\* or undefined gives NaN and an integer gives itself.
ParseInt(v) ==
  CASE v.t = "string" -> ParseIntStr(v.s)
    [] v.t = "number" -> Num(v.n)
    [] OTHER -> NaN

UpperChars == <<"A", "B", "C", "D", "E", "F", "G", "H", "I", "J", "K", "L", "M",
                "N", "O", "P", "Q", "R", "S", "T", "U", "V", "W", "X", "Y", "Z">>
LowerChars == <<"a", "b", "c", "d", "e", "f", "g", "h", "i", "j", "k", "l", "m",
                "n", "o", "p", "q", "r", "s", "t", "u", "v", "w", "x", "y", "z">>
ToLowerChar(c) ==
  IF \E i \in 1..26 : UpperChars[i] = c
  THEN LowerChars[CHOOSE i \in 1..26 : UpperChars[i] = c]
  ELSE c

\* s.replace(/-/g, '').toLowerCase()
RECURSIVE StripHyphensLower(_)
StripHyphensLower(s) ==
  IF s = <<>> THEN <<>>
  ELSE IF Head(s) = "-" THEN StripHyphensLower(Tail(s))
  ELSE <<ToLowerChar(Head(s))>> \o StripHyphensLower(Tail(s))

\* s.search(/^(space|tab)$/) > -1
MatchesIndentStyle(s) ==
  s \in {<<"s", "p", "a", "c", "e">>, <<"t", "a", "b">>}

\* ------------------------------------------------------------ RawConfig

\* A RawConfig is a record: its domain is the keys present (`key in config`).
EmptyConfig == <<>>
Has(config, key) == key \in DOMAIN config
\* config[key], undefined when the key is absent.
Get(config, key) == IF Has(config, key) THEN config[key] ELSE Undefined

\* Names every object inherits from Object.prototype (some of them).
ObjectPrototypeKeys == {<<"c", "o", "n", "s", "t", "r", "u", "c", "t", "o", "r">>, <<"_", "_", "p", "r", "o", "t", "o", "_", "_">>}

\* lineEndings[key] of index.js:188-192: the literal's own keys, then what the
\* literal inherits; any other key gives undefined.
LineEndingsLookup(key) ==
  IF key.t # "string" THEN Undefined
  ELSE CASE key.s = <<"c", "r", "l", "f">> -> Str(<<"\r", "\n">>)
         [] key.s = <<"c", "r">> -> Str(<<"\r">>)
         [] key.s = <<"l", "f">> -> Str(<<"\n">>)
         [] key.s \in ObjectPrototypeKeys -> ProtoObject
         [] OTHER -> Undefined

InitialSettings ==
  [trim_trailing_whitespace |-> Unset, insert_final_newline |-> Unset,
   max_line_length |-> Unset, end_of_line |-> Unset, indent_style |-> Unset,
   tab_width |-> Unset, charset |-> Unset]

\* index.js:200-208: a boolean is kept, anything else is 'unset'.
NormalizeBoolean(config, key) ==
  IF Has(config, key) /\ config[key].t = "boolean" THEN Bool(config[key].b = TRUE)
  ELSE Unset

\* index.js:217-225: parseInt, then 'unset' for NaN and for a value <= 0.
NormalizePositive(v) ==
  LET p == ParseInt(v) IN IF p.t = "NaN" \/ p.n <= 0 THEN Unset ELSE p

\* index.js:210-211: config.indent_style.search is not a function unless the value
\* is a string; the call then raises a TypeError.
IndentStyleThrows(config) ==
  Has(config, "indent_style") /\ config.indent_style.t # "string"

\* index.js:227-228: the same for config.charset.replace.
CharsetThrows(config) ==
  Has(config, "charset") /\ config.charset.t # "string"

NormalizeIndentStyle(config) ==
  IF Has(config, "indent_style") /\ MatchesIndentStyle(config.indent_style.s)
  THEN config.indent_style ELSE Unset

NormalizeEndOfLine(config) == Or(LineEndingsLookup(Get(config, "end_of_line")), Unset)

NormalizeTabWidth(config) ==
  NormalizePositive(Or(Get(config, "indent_size"), Get(config, "tab_width")))

NormalizeMaxLineLength(config) == NormalizePositive(Get(config, "max_line_length"))

NormalizeCharset(config) ==
  IF Has(config, "charset") THEN Str(StripHyphensLower(config.charset.s)) ELSE Unset

\* The assignments of index.js:200-208, which run before anything can throw.
NormalizeStage1(settings, config) ==
  [settings EXCEPT
     !.trim_trailing_whitespace = NormalizeBoolean(config, "trim_trailing_whitespace"),
     !.insert_final_newline = NormalizeBoolean(config, "insert_final_newline")]

\* The assignments of index.js:210-225.
NormalizeStage2(settings, config) ==
  [settings EXCEPT
     !.indent_style = NormalizeIndentStyle(config),
     !.end_of_line = NormalizeEndOfLine(config),
     !.tab_width = NormalizeTabWidth(config),
     !.max_line_length = NormalizeMaxLineLength(config)]

\* The assignment of index.js:227-229.
NormalizeStage3(settings, config) ==
  [settings EXCEPT !.charset = NormalizeCharset(config)]

\* What the then-callback leaves in ecfg.settings: the stages run in order and a
\* throw ends the callback where it is raised.
NormalizedSettings(settings, config) ==
  LET s1 == NormalizeStage1(settings, config) IN
  IF IndentStyleThrows(config) THEN s1
  ELSE LET s2 == NormalizeStage2(s1, config) IN
       IF CharsetThrows(config) THEN s2 ELSE NormalizeStage3(s2, config)

\* Whether the then-callback ends in a throw (caught by .catch at index.js:234).
NormalizeThrows(config) == IndentStyleThrows(config) \/ CharsetThrows(config)

\* --------------------------------------------------- buffers and paths

\* The editors the workspace may hold, in the order getTextEditors() lists them.
Editors == {1, 2, 3}
\* editor.getBuffer(): editors 1 and 2 show the same buffer, editor 3 another.
BufferOf(e) == (e + 1) \div 2
Buffers == {BufferOf(e) : e \in Editors}

\* A path is its directory and its file name; NoPath is an unsaved buffer's.
NoPath == [dir |-> "", name |-> ""]
Paths == {[dir |-> "a", name |-> ".editorconfig"], [dir |-> "a", name |-> "x"],
          [dir |-> "b", name |-> "x"]}

\* index.js:157: the URI ends in a separator followed by .editorconfig.
IsEditorconfigUri(p) == p # NoPath /\ p.name = ".editorconfig"

\* Whether file p lies under the directory the .editorconfig file f governs.
InScope(p, f) == p # NoPath /\ p.dir = f.dir

\* The rows a buffer may hold in the save-hook specification.
RowSamples ==
  {<<>>, <<" ", "\t">>, <<"a">>, <<" ", "a">>, <<"a", "\t", " ">>}
RECURSIVE ContentsOfLen(_)
ContentsOfLen(n) ==
  IF n = 0 THEN {<<>>}
  ELSE {Append(c, r) : c \in ContentsOfLen(n - 1), r \in RowSamples}
Contents == UNION {ContentsOfLen(n) : n \in 1..MaxRows}

\* What a newly opened buffer holds.
InitialContent == <<<<"a", " ">>, <<" ">>, <<>>>>

\* ---------------------------------------------------------- save hook

IsBlankChar(c) == c \in {" ", "\t"}
\* buffer.isRowBlank(row): the row holds no \S character. Rows count from 0.
IsRowBlank(rows, row) == \A i \in 1..Len(rows[row + 1]) : IsBlankChar(rows[row + 1][i])

\* JavaScript's null, which previousNonBlankRow returns when it finds no row.
Null == [t |-> "null", b |-> FALSE, s |-> <<>>, n |-> 0]
\* ToNumber of a row result: null counts as 0 in `+= 1`, `<` and `+ 1`.
ToNumber(v) == IF v.t = "number" THEN v.n ELSE 0

\* PreviousNonBlankRow finding no row, whatever the rows hold.
PreviousNonBlankRowNone(rows, startRow) == Null

\* buffer.previousNonBlankRow(startRow).
PreviousNonBlankRow(rows, startRow) ==
  LET found == {r \in 0..(startRow - 1) : ~IsRowBlank(rows, r)} IN
  IF startRow = 0 \/ found = {} THEN Null
  ELSE Num(CHOOSE r \in found : \A q \in found : q <= r)

\* buffer.deleteRows(startRow, endRow), rows counted from 0: rows before the last
\* go with their line ending; a range reaching the last row also removes the
\* line ending before it, and leaves one empty row when it starts at row 0.
DeleteRows(rows, startRow0, endRow0) ==
  LET lastRow == Len(rows) - 1
      lo == IF startRow0 > endRow0 THEN endRow0 ELSE startRow0
      hi == IF startRow0 > endRow0 THEN startRow0 ELSE endRow0
      s == IF lo < 0 THEN 0 ELSE lo
      e == IF hi > lastRow THEN lastRow ELSE hi
  IN IF hi < 0 \/ lo > lastRow THEN rows
     ELSE IF e < lastRow THEN SubSeq(rows, 1, s) \o SubSeq(rows, e + 2, Len(rows))
     ELSE IF s = 0 THEN << <<>> >>
     ELSE SubSeq(rows, 1, s)

\* The row without the run of spaces and tabs at its end: /[ \t]+$/ replaced by ''.
RECURSIVE TrimRow(_)
TrimRow(r) ==
  IF r # <<>> /\ IsBlankChar(r[Len(r)]) THEN TrimRow(SubSeq(r, 1, Len(r) - 1)) ELSE r

\* TrimStep with a scan that removes one character of each run only.
TrimStepOneChar(rows, settings) ==
  IF settings.trim_trailing_whitespace = Bool(TRUE)
  THEN [i \in 1..Len(rows) |->
          IF rows[i] # <<>> /\ IsBlankChar(rows[i][Len(rows[i])])
          THEN SubSeq(rows[i], 1, Len(rows[i]) - 1) ELSE rows[i]]
  ELSE rows

\* index.js:124-130.
TrimStep(rows, settings) ==
  IF settings.trim_trailing_whitespace = Bool(TRUE)
  THEN [i \in 1..Len(rows) |-> TrimRow(rows[i])]
  ELSE rows

\* FinalNewlineStep with `stripStart += 1` run for false as for true.
FinalNewlineStepKeepsOne(rows, settings) ==
  IF settings.insert_final_newline = Unset THEN rows
  ELSE LET lastRow == Len(rows) - 1 IN
       IF IsRowBlank(rows, lastRow)
       THEN LET stripStart == ToNumber(PreviousNonBlankRow(rows, lastRow)) + 1
            IN IF stripStart < lastRow THEN DeleteRows(rows, stripStart + 1, lastRow)
               ELSE rows
       ELSE IF settings.insert_final_newline = Bool(TRUE)
       THEN Append(rows, <<>>)
       ELSE rows

\* FinalNewlineStep without the test of index.js:135 for a blank last row.
FinalNewlineStepAppends(rows, settings) ==
  IF settings.insert_final_newline = Bool(TRUE) THEN Append(rows, <<>>) ELSE rows

\* index.js:132-149.
FinalNewlineStep(rows, settings) ==
  IF settings.insert_final_newline = Unset THEN rows
  ELSE LET lastRow == Len(rows) - 1 IN
       IF IsRowBlank(rows, lastRow)
       THEN LET prev == PreviousNonBlankRow(rows, lastRow)
                stripStart == IF settings.insert_final_newline = Bool(TRUE)
                              THEN Num(ToNumber(prev) + 1) ELSE prev
            IN IF ToNumber(stripStart) < lastRow
               THEN DeleteRows(rows, ToNumber(stripStart) + 1, lastRow)
               ELSE rows
       ELSE IF settings.insert_final_newline = Bool(TRUE)
       THEN Append(rows, <<>>)
       ELSE rows

\* index.js:121-150: the handler of the buffer's will-save event.
OnWillSave(rows, settings) == FinalNewlineStep(TrimStep(rows, settings), settings)

\* ------------------------------------------------- the host's defaults

\* atom.config.get('editor.softTabs'), 'editor.tabLength', 'core.fileEncoding'
\* and 'editor.preferredLineLength': the host's global preferences.
GlobalSoftTabs == Bool(TRUE)
GlobalTabLength == 2
GlobalEncoding == Str(<<"u", "t", "f", "8">>)
GlobalPreferredLineLength == 80

\* editor.usesSoftTabs(): decided by the first row that starts with a space or a
\* tab; undefined when no row does.
UsesSoftTabs(rows) ==
  LET led == {i \in 1..Len(rows) : rows[i] # <<>> /\ IsBlankChar(rows[i][1])} IN
  IF led = {} THEN Undefined
  ELSE Bool(rows[CHOOSE i \in led : \A j \in led : i <= j][1] = " ")

\* ------------------------------------------------------------- state

VARIABLES
  active,     \* the package is activated
  observers,  \* callbacks activate() has registered with the workspace (never released)
  open,       \* the editors atom.workspace.getTextEditors() returns
  path,       \* buffer -> buffer.getUri(), NoPath when unsaved
  content,    \* buffer -> its rows
  ecfg,       \* buffer -> buffer.editorconfig
  subs,       \* buffer -> the handlers of its did-save event, in the order added
  edst,       \* editor -> soft tabs, tab length, preferred line length, wrap guide
  bfst,       \* buffer -> encoding and preferred line ending
  pending,    \* the editorconfig.parse promises not yet settled, oldest first
  started,    \* buffers a resolution has been requested for
  last        \* the event handled last

vars == <<active, observers, open, path, content, ecfg, subs, edst, bfst, pending,
          started, last>>

\* The part of the state the handlers of index.js read and write.
World ==
  [open |-> open, path |-> path, content |-> content, ecfg |-> ecfg, subs |-> subs,
   edst |-> edst, bfst |-> bfst, pending |-> pending, started |-> started]

\* A buffer that index.js has not seen: 'editorconfig' in buffer is false.
NoEcfg ==
  [init |-> FALSE, settings |-> InitialSettings, hasConfig |-> FALSE,
   config |-> EmptyConfig, willSave |-> 0, state |-> "subtle"]

\* index.js:25-39 and 153-155: the object initializeTextBuffer creates, with its
\* will-save subscription.
NewEcfg ==
  [init |-> TRUE, settings |-> InitialSettings, hasConfig |-> FALSE,
   config |-> EmptyConfig, willSave |-> 1, state |-> "subtle"]

\* The wrap-guide view of an editor as the host creates it.
HostGuide ==
  [marked |-> FALSE, native |-> "none", active |-> "host", wraps |-> 0,
   column |-> Num(GlobalPreferredLineLength)]

NewEditorState ==
  [softTabs |-> GlobalSoftTabs, tabLength |-> Num(GlobalTabLength),
   preferredLineLength |-> Num(GlobalPreferredLineLength), guide |-> HostGuide]

NewBufferState == [encoding |-> GlobalEncoding, lineEnding |-> Undefined]

ReapplyHandler == [kind |-> "reapply", ed |-> 0]
ObserveHandler(e) == [kind |-> "observe", ed |-> e]

\* index.js:23-163.
InitializeTextBuffer(w, b) ==
  IF w.ecfg[b].init THEN w
  ELSE [w EXCEPT
          !.ecfg[b] = NewEcfg,
          !.subs[b] = IF IsEditorconfigUri(w.path[b])
                      THEN Append(w.subs[b], ReapplyHandler) ELSE w.subs[b]]

\* index.js:42-46: the last editor of the workspace that shows the buffer, 0 for
\* undefined.
GetCurrentEditor(w, b) ==
  LET shown == {e \in w.open : BufferOf(e) = b} IN
  IF shown = {} THEN 0 ELSE CHOOSE e \in shown : \A f \in shown : f <= e

\* lib/wrapguide-interceptor: the guide column is max_line_length, and the
\* native function's value when that is 'unset'.
InterceptedGuideColumn(settings) ==
  IF settings.max_line_length = Unset THEN Num(GlobalPreferredLineLength)
  ELSE settings.max_line_length

\* InterceptGuide without the test of index.js:98 for an earlier interception.
InterceptGuideAgain(guide, settings) ==
  [guide EXCEPT !.marked = TRUE, !.native = guide.active, !.active = "interceptor",
                !.wraps = guide.wraps + 1,
                !.column = InterceptedGuideColumn(settings)]

\* index.js:95-110: the interception of the wrap guide, then wrapGuide.updateGuide().
InterceptGuide(guide, settings) ==
  LET g == IF guide.marked THEN guide
           ELSE [guide EXCEPT !.marked = TRUE, !.native = guide.active,
                              !.active = "interceptor", !.wraps = guide.wraps + 1]
  IN [g EXCEPT !.column = InterceptedGuideColumn(settings)]

\* index.js:49-117.  The state field is what setState (index.js:17-20, called at
\* index.js:116) records for the status bar.
ApplySettings(w, b) ==
  LET editor == GetCurrentEditor(w, b)
      settings == w.ecfg[b].settings
      uses == UsesSoftTabs(w.content[b])
  IN IF editor = 0 THEN w
     ELSE [w EXCEPT
       !.edst[editor] =
         [softTabs |-> IF settings.indent_style = Unset
                       THEN (IF uses = Undefined THEN GlobalSoftTabs ELSE uses)
                       ELSE Bool(settings.indent_style = Str(<<"s", "p", "a", "c", "e">>)),
          tabLength |-> IF settings.tab_width = Unset THEN Num(GlobalTabLength)
                        ELSE settings.tab_width,
          preferredLineLength |-> IF settings.max_line_length = Unset
                                  THEN Num(GlobalPreferredLineLength)
                                  ELSE settings.max_line_length,
          guide |-> InterceptGuide(w.edst[editor].guide, settings)],
       !.bfst[b] =
         [encoding |-> IF settings.charset = Unset THEN GlobalEncoding
                       ELSE settings.charset,
          lineEnding |-> IF settings.end_of_line # Unset THEN settings.end_of_line
                         ELSE w.bfst[b].lineEnding],
       !.ecfg[b].state = "checked"]

\* index.js:166-237, up to the call of editorconfig.parse: a buffer without a path
\* gets a did-save handler, any other a request to the resolver.
ObserveTextEditor(w, e) ==
  LET b == BufferOf(e)
      w1 == InitializeTextBuffer(w, b)
  IN IF w1.path[b] = NoPath
     THEN [w1 EXCEPT !.subs[b] = Append(w1.subs[b], ObserveHandler(e))]
     ELSE [w1 EXCEPT
             !.pending = Append(w1.pending, [ed |-> e, file |-> w1.path[b], late |-> FALSE]),
             !.started = w1.started \cup {b}]

\* The editors of s in workspace order, each observed in turn.
RECURSIVE ObserveAll(_, _)
ObserveAll(w, s) ==
  IF s = {} THEN w
  ELSE LET e == CHOOSE x \in s : \A y \in s : x <= y
       IN ObserveAll(ObserveTextEditor(w, e), s \ {e})

\* ReapplyEditorconfig with a loop that ends after its first editor.
ReapplyFirstEditor(w) ==
  IF w.open = {} THEN w
  ELSE ObserveTextEditor(w, CHOOSE x \in w.open : \A y \in w.open : x <= y)

\* index.js:240-245.
ReapplyEditorconfig(w) == ObserveAll(w, w.open)

\* ThenResolved without the test of index.js:182-184 for an empty config.
ThenResolvedUnguarded(w, e, config) ==
  LET b == BufferOf(e)
      w1 == [w EXCEPT
               !.ecfg[b].hasConfig = TRUE,
               !.ecfg[b].config = config,
               !.ecfg[b].settings = NormalizedSettings(w.ecfg[b].settings, config)]
  IN IF NormalizeThrows(config) THEN w1 ELSE ApplySettings(w1, b)

\* index.js:181-233: the then-callback of editorconfig.parse(file), given the
\* editor of the request and the config the promise resolved to.
ThenResolved(w, e, config) ==
  LET b == BufferOf(e) IN
  IF DOMAIN config = {} THEN w
  ELSE LET w1 == [w EXCEPT
                    !.ecfg[b].hasConfig = TRUE,
                    !.ecfg[b].config = config,
                    !.ecfg[b].settings = NormalizedSettings(w.ecfg[b].settings, config)]
       IN IF NormalizeThrows(config) THEN w1 ELSE ApplySettings(w1, b)

\* CatchRejected with a handler that puts the settings back to 'unset'.
CatchRejectedResets(w, e) ==
  [w EXCEPT !.ecfg[BufferOf(e)].settings = InitialSettings]

\* index.js:234-236: a rejected promise is logged and nothing else happens.
CatchRejected(w, e) == w

\* index.js:248-256, for a pane item that is the text editor e.
ObserveActivePaneItem(w, e) ==
  IF w.ecfg[BufferOf(e)].init THEN ApplySettings(w, BufferOf(e)) ELSE w

\* One did-save handler: index.js:159 (reapplyEditorconfig) or index.js:175-177.
RunHandler(w, h) ==
  IF h.kind = "reapply" THEN ReapplyEditorconfig(w) ELSE ObserveTextEditor(w, h.ed)

\* The did-save event: the handlers present when it is emitted, in order.
RECURSIVE EmitDidSave(_, _)
EmitDidSave(w, handlers) ==
  IF handlers = <<>> THEN w
  ELSE EmitDidSave(RunHandler(w, Head(handlers)), Tail(handlers))

\* The will-save event: index.js:153-155 subscribed onWillSave, unless disposed.
EmitWillSave(w, b) ==
  IF w.ecfg[b].willSave > 0
  THEN [w EXCEPT !.content[b] = OnWillSave(w.content[b], w.ecfg[b].settings)]
  ELSE w

\* buffer.save() and buffer.saveAs(p): will-save, the new path, did-save.
SaveBuffer(w, b, p) ==
  EmitDidSave([EmitWillSave(w, b) EXCEPT !.path[b] = p], w.subs[b])

\* A new editor reaches each callback given to atom.workspace.observeTextEditors
\* (index.js:263), then becomes the active pane item (index.js:264).
RECURSIVE ObserveTimes(_, _, _)
ObserveTimes(w, e, n) ==
  IF n = 0 THEN w ELSE ObserveTimes(ObserveTextEditor(w, e), e, n - 1)

RECURSIVE ActivateItemTimes(_, _, _)
ActivateItemTimes(w, e, n) ==
  IF n = 0 THEN w ELSE ActivateItemTimes(ObserveActivePaneItem(w, e), e, n - 1)

\* index.js:272: disposables.dispose() ends the will-save subscription and the
\* did-save subscription of reapplyEditorconfig.
Dispose(w, b) ==
  [w EXCEPT !.ecfg[b].willSave = 0,
            !.subs[b] = SelectSeq(w.subs[b], LAMBDA h : h.kind # "reapply")]

\* index.js:269-275: the loop ends at the first editor whose buffer carries no
\* editorconfig object (a TypeError).
RECURSIVE DisposeAll(_, _)
DisposeAll(w, s) ==
  IF s = {} THEN w
  ELSE LET e == CHOOSE x \in s : \A y \in s : x <= y IN
       IF ~w.ecfg[BufferOf(e)].init THEN w
       ELSE DisposeAll(Dispose(w, BufferOf(e)), s \ {e})

\* ---------------------------------------------------- resolver results

CfgSpace ==
  [indent_style |-> Str(<<"s", "p", "a", "c", "e">>), indent_size |-> Num(4),
   insert_final_newline |-> Bool(TRUE), trim_trailing_whitespace |-> Bool(TRUE)]
CfgTab ==
  [indent_style |-> Str(<<"t", "a", "b">>), insert_final_newline |-> Bool(FALSE),
   charset |-> Str(<<"U", "T", "F", "-", "8">>), end_of_line |-> Str(<<"c", "r", "l", "f">>),
   max_line_length |-> Str(<<"1", "0", "0">>)]
\* indent_style = true in the file: the parser hands a boolean.
CfgBadStyle ==
  [trim_trailing_whitespace |-> Bool(FALSE), indent_style |-> Bool(TRUE),
   tab_width |-> Num(8)]
\* end_of_line = constructor in the file.
CfgProtoEol == [end_of_line |-> Str(<<"c", "o", "n", "s", "t", "r", "u", "c", "t", "o", "r">>)]

\* charset = 8 in the file: the parser hands a number.
CfgBadCharset == [insert_final_newline |-> Bool(TRUE), charset |-> Num(8)]
\* end_of_line = native in the file: no key of lineEndings.
CfgUnknownEol == [end_of_line |-> Str(<<"n", "a", "t", "i", "v", "e">>), tab_width |-> Str(<<"0">>)]
\* indent_size = 0 and tab_width = 4 in the file.
CfgZeroIndent == [indent_size |-> Num(0), tab_width |-> Num(4)]

\* What editorconfig.parse may resolve to.
Configs == {EmptyConfig, CfgSpace, CfgTab}
NormConfigs ==
  Configs \cup {CfgBadStyle, CfgBadCharset, CfgProtoEol, CfgUnknownEol, CfgZeroIndent}

\* ----------------------------------------------------------- actions

\* Activations one run may see.
MaxObservers == 2

NoEvent ==
  [op |-> "init", ed |-> 0, buf |-> 0, outcome |-> "", reqs |-> 0, stale |-> FALSE,
   late |-> FALSE, before |-> <<>>, prePath |-> NoPath, wasStarted |-> FALSE,
   reapplied |-> FALSE]

SetWorld(w) ==
  /\ open' = w.open
  /\ path' = w.path
  /\ content' = w.content
  /\ ecfg' = w.ecfg
  /\ subs' = w.subs
  /\ edst' = w.edst
  /\ bfst' = w.bfst
  /\ pending' = w.pending
  /\ started' = w.started

WithinBounds(w) ==
  /\ Len(w.pending) <= MaxPending
  /\ \A b \in Buffers : Len(w.subs[b]) <= MaxSubs

\* No other buffer is backed by file p.
PathFree(b, p) == \A c \in Buffers \ {b} : path[c] # p

Init ==
  /\ active = FALSE
  /\ observers = 0
  /\ open = {}
  /\ path = [b \in Buffers |-> NoPath]
  /\ content = [b \in Buffers |-> InitialContent]
  /\ ecfg = [b \in Buffers |-> NoEcfg]
  /\ subs = [b \in Buffers |-> <<>>]
  /\ edst = [e \in Editors |-> NewEditorState]
  /\ bfst = [b \in Buffers |-> NewBufferState]
  /\ pending = <<>>
  /\ started = {}
  /\ last = NoEvent

\* index.js:259-266: activate(). observeTextEditors calls back for every editor
\* already open, observeActivePaneItem for the item active now (f, 0 for none or
\* for an item that is no text editor), and reapplyEditorconfig observes every
\* editor again.
Activate(f) ==
  /\ ~active
  /\ observers < MaxObservers
  /\ f = 0 \/ f \in open
  /\ LET w1 == ObserveAll(World, open)
         w2 == IF f = 0 THEN w1 ELSE ObserveActivePaneItem(w1, f)
         w3 == ReapplyEditorconfig(w2)
     IN /\ WithinBounds(w3)
        /\ SetWorld(w3)
        /\ last' = [NoEvent EXCEPT !.op = "activate",
                                   !.reqs = Len(w3.pending) - Len(pending)]
  /\ active' = TRUE
  /\ observers' = observers + 1

\* index.js:269-275: deactivate().
Deactivate ==
  /\ active
  /\ SetWorld(DisposeAll(World, open))
  /\ active' = FALSE
  /\ last' = [NoEvent EXCEPT !.op = "deactivate"]
  /\ UNCHANGED observers

\* The user opens editor e; p is the file of its buffer when no editor shows
\* that buffer yet.
Open(e, p) ==
  LET b == BufferOf(e) IN
  /\ e \notin open
  /\ IF \E f \in open : BufferOf(f) = b THEN p = path[b]
     ELSE p = NoPath \/ PathFree(b, p)
  /\ LET w0 == [World EXCEPT !.open = open \cup {e}, !.path[b] = p]
         w1 == ObserveTimes(w0, e, observers)
         w2 == ActivateItemTimes(w1, e, observers)
     IN /\ WithinBounds(w2)
        /\ SetWorld(w2)
        /\ last' = [NoEvent EXCEPT !.op = "open", !.ed = e, !.buf = b,
                                   !.reqs = Len(w2.pending) - Len(pending)]
  /\ UNCHANGED <<active, observers>>

\* The user saves editor e to file p: p is the buffer's path (save) or a new
\* one (save as).
Save(e, p) ==
  LET b == BufferOf(e)
      w1 == SaveBuffer(World, b, p)
  IN /\ e \in open
     /\ PathFree(b, p)
     /\ WithinBounds(w1)
     /\ SetWorld(w1)
     /\ last' = [NoEvent EXCEPT
                   !.op = "save", !.ed = e, !.buf = b,
                   !.outcome = IF ecfg[b].willSave > 0 THEN "hook" ELSE "nohook",
                   !.reqs = Len(w1.pending) - Len(pending),
                   !.before = content[b], !.prePath = path[b],
                   !.wasStarted = b \in started,
                   !.reapplied = \E i \in 1..Len(subs[b]) : subs[b][i].kind = "reapply"]
     /\ UNCHANGED <<active, observers>>

\* The pending requests without the i-th.
Without(q, i) == SubSeq(q, 1, i - 1) \o SubSeq(q, i + 1, Len(q))

\* Requests older than the i-th for the same buffer are overtaken once the i-th
\* has brought settings.
Overtake(q, i, took) ==
  [j \in 1..Len(q) |->
     IF took /\ j < i /\ BufferOf(q[j].ed) = BufferOf(q[i].ed)
     THEN [q[j] EXCEPT !.late = TRUE] ELSE q[j]]

\* The promise of request i resolves to config.
Complete(i, config) ==
  LET r == pending[i]
      b == BufferOf(r.ed)
      took == DOMAIN config # {} /\ ~NormalizeThrows(config)
      w0 == [World EXCEPT !.pending = Without(Overtake(pending, i, took), i)]
      w1 == ThenResolved(w0, r.ed, config)
  IN /\ SetWorld(w1)
     /\ last' = [NoEvent EXCEPT
                   !.op = "complete", !.ed = r.ed, !.buf = b,
                   !.outcome = IF DOMAIN config = {} THEN "empty"
                               ELSE IF NormalizeThrows(config) THEN "threw"
                               ELSE IF GetCurrentEditor(w0, b) = 0 THEN "noeditor"
                               ELSE "applied",
                   !.stale = r.file # path[b], !.late = r.late]
     /\ UNCHANGED <<active, observers>>

\* The promise of request i is rejected.
Reject(i) ==
  LET r == pending[i]
      w1 == CatchRejected([World EXCEPT !.pending = Without(pending, i)], r.ed)
  IN /\ SetWorld(w1)
     /\ last' = [NoEvent EXCEPT !.op = "reject", !.ed = r.ed, !.buf = BufferOf(r.ed),
                                !.stale = r.file # path[BufferOf(r.ed)], !.late = r.late]
     /\ UNCHANGED <<active, observers>>

\* Editor e becomes the active pane item: every callback registered at
\* index.js:264 runs.
Focus(e) ==
  /\ e \in open
  /\ observers > 0
  /\ LET w1 == ActivateItemTimes(World, e, observers)
     IN /\ SetWorld(w1)
        /\ last' = [NoEvent EXCEPT !.op = "focus", !.ed = e, !.buf = BufferOf(e),
                                   !.reqs = Len(w1.pending) - Len(pending)]
  /\ UNCHANGED <<active, observers>>

\* The editors of eds open, and the package is activated.
Arrive(eds) ==
  \/ \E f \in {0} \cup eds : Activate(f)
  \/ \E e \in eds, p \in Paths \cup {NoPath} : Open(e, p)

\* The promises settle; the resolver answers with one of configs.
Settle(configs) ==
  \/ \E i \in 1..Len(pending), config \in configs : Complete(i, config)
  \/ \E i \in 1..Len(pending) : Reject(i)

\* Two editors on one buffer.
Next ==
  \/ Arrive({1, 2})
  \/ \E e \in {1, 2}, p \in Paths : Save(e, p)
  \/ Settle(Configs)
Spec == Init /\ [][Next]_vars

\* Two buffers, one editor each.
ScopeNext ==
  \/ Arrive({1, 3})
  \/ \E e \in {1, 3}, p \in Paths : Save(e, p)
  \/ Settle({CfgSpace})
ScopeSpec == Init /\ [][ScopeNext]_vars

\* One editor, and a resolver that also answers with malformed values.
NormNext == Arrive({1}) \/ Settle(NormConfigs)
NormSpec == Init /\ [][NormNext]_vars

\* Two editors on one buffer, with focus changes and deactivation.
LifeNext ==
  \/ Arrive({1, 2})
  \/ \E e \in {1, 2} : Save(e, [dir |-> "a", name |-> "x"])
  \/ Settle({CfgSpace, CfgTab})
  \/ \E e \in {1, 2} : Focus(e)
  \/ Deactivate
LifeSpec == Init /\ [][LifeNext]_vars

\* ------------------------------------------- the save-hook specification

\* The configs that set the two keys the save hook reads, each absent, true or false.
HookConfigs ==
  {tw @@ fn : tw \in {EmptyConfig, [trim_trailing_whitespace |-> Bool(TRUE)],
                      [trim_trailing_whitespace |-> Bool(FALSE)]},
              fn \in {EmptyConfig, [insert_final_newline |-> Bool(TRUE)],
                      [insert_final_newline |-> Bool(FALSE)]}}

\* Editor 1 is open on file a/x with some content, and the resolution its
\* opening requested has completed.
SaveInit ==
  \E rows \in Contents, config \in HookConfigs :
    LET file == [dir |-> "a", name |-> "x"]
        w0 == [open |-> {1},
               path |-> [b \in Buffers |-> IF b = 1 THEN file ELSE NoPath],
               content |-> [b \in Buffers |-> IF b = 1 THEN rows ELSE InitialContent],
               ecfg |-> [b \in Buffers |-> NoEcfg],
               subs |-> [b \in Buffers |-> <<>>],
               edst |-> [e \in Editors |-> NewEditorState],
               bfst |-> [b \in Buffers |-> NewBufferState],
               pending |-> <<>>, started |-> {}]
        w1 == ObserveActivePaneItem(ObserveTextEditor(w0, 1), 1)
        w2 == ThenResolved([w1 EXCEPT !.pending = <<>>], 1, config)
    IN /\ open = w2.open /\ path = w2.path /\ content = w2.content
       /\ ecfg = w2.ecfg /\ subs = w2.subs /\ edst = w2.edst /\ bfst = w2.bfst
       /\ pending = w2.pending /\ started = w2.started
       /\ active = TRUE /\ observers = 1 /\ last = NoEvent

SaveNext == \E e \in {1} : Save(e, path[BufferOf(e)])
SaveSpec == SaveInit /\ [][SaveNext]_vars

\* ============================================================== claims

\* The buffer of the event handled last, and its editorconfig object.
LastEcfg == ecfg[last.buf]
\* The requests the event handled last has added.
NewRequests == {pending[i] : i \in (Len(pending) - last.reqs + 1)..Len(pending)}

\* ------------------------------------------------------------------ C1
\* C1: a resolution that completes after the buffer's path has changed mutates
\* nothing: settings, retained config and editor, buffer and view state stay.
C1_StaleCompletionMutatesNothing ==
  [][(last'.op = "complete" /\ last'.stale) => UNCHANGED <<ecfg, edst, bfst, content>>]_vars

\* ------------------------------------------------------------------ C2
\* C2: a request overtaken by a later request for the same buffer, which has
\* already brought its settings, changes nothing when it completes in turn: the
\* settings stay those of the later request.
C2_OvertakenCompletionDoesNotClobber ==
  [][(last'.op = "complete" /\ last'.late) => UNCHANGED <<ecfg, edst, bfst>>]_vars

\* ------------------------------------------------------------------ C3
\* C3: after the save hook has run with insert_final_newline = true the content
\* ends with exactly one line terminator: the last row is empty and the row
\* before it is not blank.
EndsWithOneNewline(rows) ==
  /\ Len(rows) >= 2
  /\ rows[Len(rows)] = <<>>
  /\ ~IsRowBlank(rows, Len(rows) - 2)

C3_FinalNewlineTrue ==
  (last.op = "save" /\ last.outcome = "hook"
   /\ LastEcfg.settings.insert_final_newline = Bool(TRUE))
  => EndsWithOneNewline(content[last.buf])

\* ------------------------------------------------------------------ C4
\* C4: a completion with an empty config changes neither the settings, the
\* retained config and the severity, nor any editor, buffer or view property.
C4_EmptyConfigIsNoOp ==
  [][(last'.op = "complete" /\ last'.outcome = "empty")
     => UNCHANGED <<ecfg, edst, bfst, content, path, subs>>]_vars

\* An empty completion has reached a buffer whose settings were resolved before.
C4_Witness ==
  /\ last.op = "complete" /\ last.outcome = "empty"
  /\ LastEcfg.hasConfig
  /\ LastEcfg.settings # InitialSettings
  /\ LastEcfg.state = "checked"

\* ------------------------------------------------------------------ C5
IsUnsetOrBoolean(v) == v = Unset \/ v.t = "boolean"
IsUnsetOrPositive(v) == v = Unset \/ (v.t = "number" /\ v.n > 0)
IsLowerNoHyphen(v) ==
  v.t = "string" /\ \A i \in 1..Len(v.s) : v.s[i] # "-" /\ ToLowerChar(v.s[i]) = v.s[i]
SettingsInDomain(s) ==
  /\ DOMAIN s = DOMAIN InitialSettings
  /\ IsUnsetOrBoolean(s.trim_trailing_whitespace)
  /\ IsUnsetOrBoolean(s.insert_final_newline)
  /\ IsUnsetOrPositive(s.max_line_length)
  /\ IsUnsetOrPositive(s.tab_width)
  /\ s.end_of_line \in {Unset, Str(<<"\r", "\n">>), Str(<<"\r">>), Str(<<"\n">>)}
  /\ s.indent_style \in {Unset, Str(<<"s", "p", "a", "c", "e">>), Str(<<"t", "a", "b">>)}
  /\ IsLowerNoHyphen(s.charset)

\* C5: in every reachable state every field of every buffer's settings is
\* 'unset' or a value of its domain.
C5_SettingsInDomain == \A b \in Buffers : SettingsInDomain(ecfg[b].settings)

\* ------------------------------------------------------------------ C6
\* C6: after the completion of a non-empty config no error was raised, every
\* field is the normalisation of that config, a malformed indent_style or
\* charset being 'unset', and the settings were applied.
C6_NormalizationIsTotal ==
  (last.op = "complete" /\ last.outcome # "empty") =>
    LET c == LastEcfg.config
        s == LastEcfg.settings
    IN /\ last.outcome # "threw"
       /\ s.trim_trailing_whitespace = NormalizeBoolean(c, "trim_trailing_whitespace")
       /\ s.insert_final_newline = NormalizeBoolean(c, "insert_final_newline")
       /\ s.indent_style = IF IndentStyleThrows(c) THEN Unset ELSE NormalizeIndentStyle(c)
       /\ s.end_of_line = NormalizeEndOfLine(c)
       /\ s.tab_width = NormalizeTabWidth(c)
       /\ s.max_line_length = NormalizeMaxLineLength(c)
       /\ s.charset = IF CharsetThrows(c) THEN Unset ELSE NormalizeCharset(c)

\* ------------------------------------------------------------------ C7
\* C7: a rejected lookup changes nothing but the set of pending requests: the
\* settings, the retained config, the editor, buffer and view state and the
\* subscriptions (save hook, did-save handlers, workspace observers) stay.
C7_RejectionLeavesStateUntouched ==
  [][last'.op = "reject"
     => /\ UNCHANGED <<ecfg, edst, bfst, content, path, subs, open, active, observers>>
        /\ Len(pending') = Len(pending) - 1]_vars

\* A lookup was rejected for a buffer with resolved settings and a live save hook.
C7_Witness ==
  /\ last.op = "reject"
  /\ LastEcfg.hasConfig /\ LastEcfg.settings # InitialSettings
  /\ LastEcfg.willSave = 1

\* ------------------------------------------------------------------ C8
\* Editor e got a request for its buffer's file from the event handled last.
Requested(e) == \E r \in NewRequests : r.ed = e /\ r.file = path[BufferOf(e)]

\* C8 as stated: the save of a .editorconfig buffer that runs the re-apply
\* requests a resolution for the open editors under its scope, and for no other.
C8_OnlyBuffersInScope ==
  (last.op = "save" /\ last.reapplied /\ IsEditorconfigUri(path[last.buf]))
  => \A e \in open : Requested(e) <=> InScope(path[BufferOf(e)], path[last.buf])

\* C8 amended: the re-apply requests one resolution for every open editor whose
\* buffer has a path, whatever the scope of the saved file, and no other.
C8_ReapplyRequestsEveryEditor ==
  (last.op = "save" /\ last.reapplied)
  => /\ \A e \in open : Requested(e) <=> path[BufferOf(e)] # NoPath
     /\ last.reqs = Cardinality({e \in open : path[BufferOf(e)] # NoPath})

\* The save of a .editorconfig file has requested a resolution for an editor
\* outside its scope, next to one inside it.
C8_Witness ==
  /\ last.op = "save" /\ last.reapplied /\ IsEditorconfigUri(path[last.buf])
  /\ \E e \in open : Requested(e) /\ ~InScope(path[BufferOf(e)], path[last.buf])
  /\ \E e \in open : Requested(e) /\ InScope(path[BufferOf(e)], path[last.buf])

\* ------------------------------------------------------------------ C9
\* C9: the save of an observed buffer that is no .editorconfig file (and does not
\* run the re-apply) requests no resolution once the buffer has a path and a resolution was started for it, and the save
\* that gives a buffer its first path requests exactly one.
C9_OwnSaveDoesNotReResolve ==
  (last.op = "save" /\ ~IsEditorconfigUri(path[last.buf]) /\ ~last.reapplied
   /\ LastEcfg.init)
  => /\ (last.prePath # NoPath /\ last.wasStarted) => last.reqs = 0
     /\ last.prePath = NoPath => last.reqs = 1

\* ----------------------------------------------------------------- C10
HasNonBlankRow(rows) == \E r \in 0..(Len(rows) - 1) : ~IsRowBlank(rows, r)
\* The rows up to the last one that is not blank; of rows that are all blank,
\* the first.
ThroughLastNonBlank(rows) ==
  IF HasNonBlankRow(rows)
  THEN SubSeq(rows, 1, 1 + CHOOSE r \in 0..(Len(rows) - 1) :
                             /\ ~IsRowBlank(rows, r)
                             /\ \A q \in (r + 1)..(Len(rows) - 1) : IsRowBlank(rows, q))
  ELSE SubSeq(rows, 1, 1)

\* C10: after the save hook has run with insert_final_newline = false every
\* blank row after the last non-blank row is gone, empty or white space alike,
\* and content whose last row was not blank is as the trimming step left it.
C10_FinalNewlineFalse ==
  (last.op = "save" /\ last.outcome = "hook"
   /\ LastEcfg.settings.insert_final_newline = Bool(FALSE))
  => LET trimmed == TrimStep(last.before, LastEcfg.settings)
         rows == content[last.buf]
     IN /\ rows = ThroughLastNonBlank(trimmed)
        /\ HasNonBlankRow(trimmed) => ~IsRowBlank(rows, Len(rows) - 1)
        /\ ~IsRowBlank(trimmed, Len(trimmed) - 1) => rows = trimmed

\* The hook has removed several blank rows, one of them white space only, and
\* the hook has left alone content that ended in a non-blank row.
C10_Witness ==
  /\ last.op = "save" /\ last.outcome = "hook"
  /\ LastEcfg.settings.insert_final_newline = Bool(FALSE)
  /\ LastEcfg.settings.trim_trailing_whitespace = Unset
  /\ Len(last.before) = 4
  /\ ~IsRowBlank(last.before, 1)
  /\ last.before[3] # <<>> /\ IsRowBlank(last.before, 2)
  /\ last.before[4] = <<>>
  /\ Len(content[last.buf]) = 2

\* ----------------------------------------------------------------- C11
\* Row t is row r without the spaces and tabs at its end: t is a prefix of r, what
\* r has beyond it is spaces and tabs only, and t ends in neither.
IsTrimOf(t, r) ==
  /\ Len(t) <= Len(r)
  /\ SubSeq(r, 1, Len(t)) = t
  /\ \A i \in (Len(t) + 1)..Len(r) : IsBlankChar(r[i])
  /\ t = <<>> \/ ~IsBlankChar(t[Len(t)])

ShorterLen(a, b) == IF Len(a) < Len(b) THEN Len(a) ELSE Len(b)

\* C11: after the save hook has run with trim_trailing_whitespace = true no row
\* ends in a space or a tab and every row kept is the row it was without the
\* spaces and tabs at its end; with false or 'unset' every row kept is the row it
\* was, and with insert_final_newline 'unset' as well the content is unchanged.
C11_TrimTrailingWhitespace ==
  (last.op = "save" /\ last.outcome = "hook")
  => LET rows == content[last.buf]
         kept == 1..ShorterLen(rows, last.before)
     IN IF LastEcfg.settings.trim_trailing_whitespace = Bool(TRUE)
        THEN /\ \A i \in 1..Len(rows) : rows[i] = <<>> \/ ~IsBlankChar(rows[i][Len(rows[i])])
             /\ \A i \in kept : IsTrimOf(rows[i], last.before[i])
             /\ LastEcfg.settings.insert_final_newline = Unset
                => Len(rows) = Len(last.before)
        ELSE /\ \A i \in kept : rows[i] = last.before[i]
             /\ LastEcfg.settings.insert_final_newline = Unset => rows = last.before

\* The hook has trimmed a row that ended in a tab and a space, and has kept the
\* space at the start of another.
C11_Witness ==
  /\ last.op = "save" /\ last.outcome = "hook"
  /\ LastEcfg.settings.trim_trailing_whitespace = Bool(TRUE)
  /\ LastEcfg.settings.insert_final_newline = Unset
  /\ Len(last.before) = 3
  /\ last.before[1] = <<"a", "\t", " ">> /\ content[last.buf][1] = <<"a">>
  /\ last.before[2] = <<" ", "a">> /\ content[last.buf][2] = <<" ", "a">>
  /\ last.before[3] = <<" ", "\t">> /\ content[last.buf][3] = <<>>

\* ----------------------------------------------------------------- C12
\* The raw value tab_width is read from by the rule as stated: indent_size when
\* the key is present, whatever its value, and tab_width only when it is absent.
TabWidthRawValue(config) ==
  IF Has(config, "indent_size") THEN config.indent_size ELSE Get(config, "tab_width")

\* C12: after a completion that has normalised a config, tab_width is the integer
\* of indent_size when that key is present and of tab_width otherwise, and
\* 'unset' when that value is no positive integer.
C12_TabWidthFromIndentSize ==
  (last.op = "complete" /\ last.outcome = "applied")
  => LastEcfg.settings.tab_width = NormalizePositive(TabWidthRawValue(LastEcfg.config))

\* ----------------------------------------------------------------- C13
\* The event handled last has run applySettings for its buffer.
AppliedLast ==
  \/ last.op = "complete" /\ last.outcome = "applied"
  \/ last.op = "focus" /\ LastEcfg.init

\* C13: a wrap-guide view applySettings has reached, however often, keeps the
\* host's function as its native one and has the interceptor in place once; a
\* view it has not reached is as the host made it; and after applySettings the
\* guide column of its editor is max_line_length, or the host's value when that
\* is 'unset'.
C13_WrapGuideInterceptedOnce ==
  /\ \A e \in Editors :
        LET g == edst[e].guide IN
        IF g.marked THEN g.native = "host" /\ g.active = "interceptor" /\ g.wraps = 1
        ELSE g = HostGuide
  /\ AppliedLast =>
       LET g == edst[GetCurrentEditor(World, last.buf)].guide
           m == LastEcfg.settings.max_line_length
       IN /\ g.marked
          /\ g.column = IF m = Unset THEN Num(GlobalPreferredLineLength) ELSE m

\* applySettings has run again, for a focus change, on a view already
\* intercepted, with max_line_length resolved.
C13_Witness ==
  /\ last.op = "focus" /\ LastEcfg.init
  /\ LastEcfg.settings.max_line_length = Num(100)
  /\ edst[GetCurrentEditor(World, last.buf)].guide.column = Num(100)
  /\ LastEcfg.state = "checked"

\* ----------------------------------------------------------------- C14
\* The editor carries the settings: an explicit value where one is resolved, the
\* host's global preference for an 'unset' tab width or line length.
CarriesSettings(e, settings) ==
  /\ edst[e].tabLength = IF settings.tab_width = Unset THEN Num(GlobalTabLength)
                         ELSE settings.tab_width
  /\ edst[e].preferredLineLength = IF settings.max_line_length = Unset
                                   THEN Num(GlobalPreferredLineLength)
                                   ELSE settings.max_line_length
  /\ settings.indent_style # Unset
     => edst[e].softTabs = Bool(settings.indent_style = Str(<<"s", "p", "a", "c", "e">>))
  /\ edst[e].guide.marked

\* C14: after editor E has become the active pane item, its buffer having an
\* editorconfig object, E carries the buffer's settings, the buffer's encoding
\* is the charset or the host's, and no resolution was requested.
C14_FocusAppliesToFocusedEditor ==
  (last.op = "focus" /\ LastEcfg.init)
  => /\ CarriesSettings(last.ed, LastEcfg.settings)
     /\ bfst[last.buf].encoding = IF LastEcfg.settings.charset = Unset THEN GlobalEncoding
                                  ELSE LastEcfg.settings.charset
     /\ last.reqs = 0

\* ----------------------------------------------------------------- C15
\* C15: while the package is active every observed buffer has one live will-save
\* subscription, no more and no less.
C15_OneSaveHookPerBuffer ==
  \A b \in Buffers : (active /\ ecfg[b].init) => ecfg[b].willSave = 1

\* ----------------------------------------------------------------- C16
\* C16: between a deactivation and the next activation an editor opening, a save
\* and a focus change run no handler of the package: no resolution is requested,
\* no editorconfig object is created, no settings are applied and the saved
\* content is not touched.
C16_DeactivationReleasesHandlers ==
  [][(~active /\ observers > 0 /\ last'.op \in {"open", "save", "focus"})
     => UNCHANGED <<pending, started, ecfg, subs, edst, bfst, content>>]_vars

\* ----------------------------------------------------------------- C17
\* C17: after a buffer whose path names a .editorconfig file was saved with the
\* package active, a resolution has been requested for every open editor.
C17_EditorconfigSaveReapplies ==
  (last.op = "save" /\ active /\ IsEditorconfigUri(path[last.buf]))
  => \A e \in open : path[BufferOf(e)] # NoPath => Requested(e)

\* ----------------------------------------------------------------- C18
\* C18: in every state a buffer without a retained config has every setting
\* 'unset', and one with a retained config has the settings that normalising
\* that config gives from any earlier settings, the initial ones included.
C18_SettingsMatchRetainedConfig ==
  \A b \in Buffers :
    IF ecfg[b].hasConfig
    THEN ecfg[b].settings = NormalizedSettings(InitialSettings, ecfg[b].config)
    ELSE ecfg[b].settings = InitialSettings

\* ----------------------------------------------------------------- C19
\* C19: a save that follows a save of the same buffer, the settings being the
\* same, leaves the content as the first save left it.
C19_SaveHookIdempotent ==
  [][(last.op = "save" /\ last.outcome = "hook"
      /\ last'.op = "save" /\ last'.outcome = "hook" /\ last'.buf = last.buf
      /\ ecfg'[last.buf].settings = ecfg[last.buf].settings)
     => content' = content]_vars

\* A second save has found nothing to do on content to which a first save had
\* appended the final newline.
C19_Witness ==
  /\ last.op = "save" /\ last.outcome = "hook"
  /\ LastEcfg.settings.insert_final_newline = Bool(TRUE)
  /\ LastEcfg.settings.trim_trailing_whitespace = Bool(TRUE)
  /\ Len(content[last.buf]) = MaxRows + 1
  /\ content[last.buf][1] = <<"a">>
  /\ last.before = content[last.buf]

\* ----------------------------------------------------------------- C20
IsNonBlank(r) == \E i \in 1..Len(r) : ~IsBlankChar(r[i])
\* The rows that are not blank, in order.
NonBlankRows(rows) == SelectSeq(rows, IsNonBlank)
\* The same, each without the spaces and tabs at its end.
NonBlankRowsTrimmed(rows) ==
  LET nb == NonBlankRows(rows) IN [i \in 1..Len(nb) |-> TrimRow(nb[i])]

\* C20: the save hook removes no row that holds a character other than a space
\* or a tab and changes no such character: the non-blank rows, spaces and tabs at
\* their ends aside, are the same before and after, and exactly the same when
\* trim_trailing_whitespace is not true; with insert_final_newline 'unset' the
\* number of rows does not change.
C20_SaveHookKeepsContent ==
  (last.op = "save" /\ last.outcome = "hook")
  => LET rows == content[last.buf] IN
     /\ NonBlankRowsTrimmed(rows) = NonBlankRowsTrimmed(last.before)
     /\ LastEcfg.settings.trim_trailing_whitespace # Bool(TRUE)
        => NonBlankRows(rows) = NonBlankRows(last.before)
     /\ LastEcfg.settings.insert_final_newline = Unset => Len(rows) = Len(last.before)

\* The hook has cut an entirely blank buffer of several rows to its first row.
C20_Witness ==
  /\ last.op = "save" /\ last.outcome = "hook"
  /\ LastEcfg.settings.insert_final_newline = Bool(FALSE)
  /\ Len(last.before) = 3
  /\ ~HasNonBlankRow(last.before)
  /\ last.before[1] = <<" ", "\t">>
  /\ content[last.buf] = << <<" ", "\t">> >>

====
